---- MODULE Spec2Model ----
(***************************************************************************)
(* Model of src/main.py (CPTs_expedicao): the report of pending line-haul  *)
(* trips.  Three parts of the script are modelled, each with its own       *)
(* specification over its own variables:                                   *)
(*                                                                         *)
(*   Spec / FairSpec  enviar_em_blocos + enviar_webhook, character level   *)
(*   SpecMsg          obter_dados_expedicao + montar_mensagem              *)
(*   SpecC            enviar_em_blocos on a 5000-character assembled       *)
(*                    message with the default limite of 3000              *)
(*                                                                         *)
(* Strings are TLA+ strings; Len counts characters as Python's len does.   *)
(* The module text is ASCII, so the non-ASCII glyphs of the script are     *)
(* written with ASCII stand-ins that have the same number of code points.  *)
(***************************************************************************)
EXTENDS Integers, Sequences, FiniteSets, TLC

VARIABLES
    \* enviar_em_blocos / enviar_webhook
    mensagem,      \* the text handed to enviar_em_blocos
    webhook_url,   \* "" when the URL is missing
    limite,        \* the size budget
    idx,           \* number of entries of linhas the for loop has consumed
    bloco,         \* the list bloco
    enviados,      \* calls of enviar_webhook so far, in order
    pc,
    \* obter_dados_expedicao / montar_mensagem
    planilha,      \* the data rows of the sheet (dados[1:])
    agora,         \* datetime.now(), in minutes
    df,            \* the data frame returned by obter_dados_expedicao
    mensagens,     \* the list mensagens of montar_mensagem
    pcM,
    \* scenario: message of TamanhoCenario characters, default limite
    cTotal,        \* characters of the message consumed so far
    cAberta,       \* TRUE while the message has lines left
    cBloco,        \* [n |-> lines in bloco (2 = two or more), len |-> len("\n".join(bloco))]
    cEnviados,     \* chunks handed to enviar_webhook: [n, len]
    pcC

varsBlocos == <<mensagem, webhook_url, limite, idx, bloco, enviados, pc>>
varsMsg == <<planilha, agora, df, mensagens, pcM>>
varsC == <<cTotal, cAberta, cBloco, cEnviados, pcC>>
vars == <<mensagem, webhook_url, limite, idx, bloco, enviados, pc,
          planilha, agora, df, mensagens, pcM,
          cTotal, cAberta, cBloco, cEnviados, pcC>>

-----------------------------------------------------------------------------
(* Bounds *)

MaxMsg == 5
MaxLimite == 12
MaxRegistros == 2
TamanhoCenario == 5000

-----------------------------------------------------------------------------
(* Strings *)

NL == "\n"

Char(s, i) == SubSeq(s, i, i)

Min(a, b) == IF a < b THEN a ELSE b

\* str.split('\n'): the pieces between line breaks; "" gives [""].
RECURSIVE SplitDe(_, _, _)
SplitDe(s, i, atual) ==
    IF i > Len(s) THEN <<atual>>
    ELSE IF Char(s, i) = NL THEN <<atual>> \o SplitDe(s, i + 1, "")
    ELSE SplitDe(s, i + 1, atual \o Char(s, i))

Split(s) == SplitDe(s, 1, "")

\* "\n".join(lista)
RECURSIVE Join(_)
Join(lista) ==
    IF Len(lista) = 0 THEN ""
    ELSE IF Len(lista) = 1 THEN lista[1]
    ELSE lista[1] \o NL \o Join(Tail(lista))

-----------------------------------------------------------------------------
(* enviar_webhook and enviar_em_blocos *)

\* The backtick cannot be written in a string of this module: "^" stands for
\* it, so Crases is the three-backtick delimiter.
Crase == "^"
Crases == Crase \o Crase \o Crase

prefixo_bloco == Crases \o " " \o NL
sufixo_bloco == NL \o Crases

\* The inputs: every text of at most MaxMsg characters over a letter, a
\* backtick and the line break; budgets from just below the bare wrapper up.
Alfabeto == {"a", Crase, NL}

RECURSIVE Textos(_)
Textos(n) ==
    IF n = 0 THEN {""}
    ELSE LET menores == Textos(n - 1)
         IN menores \cup {t \o c : t \in {m \in menores : Len(m) = n - 1}, c \in Alfabeto}

Limites == (Len(prefixo_bloco) + Len(sufixo_bloco) - 1)..MaxLimite

linhas == Split(mensagem)

\* enviar_webhook(mensagem, webhook_url): without a URL it returns before the
\* request; otherwise the request succeeds or raises, and every Exception is
\* caught and printed.  levantou says whether an exception leaves the
\* function.
enviar_webhook_propaga(conteudo, url, falha) ==
    IF url = "" THEN [resultado |-> "sem_url", levantou |-> FALSE]
    ELSE IF falha THEN [resultado |-> "erro", levantou |-> TRUE]
    ELSE [resultado |-> "ok", levantou |-> FALSE]

enviar_webhook(conteudo, url, falha) ==
    IF url = "" THEN [resultado |-> "sem_url", levantou |-> FALSE]
    ELSE IF falha THEN [resultado |-> "erro", levantou |-> FALSE]
    ELSE [resultado |-> "ok", levantou |-> FALSE]

\* One call of enviar_webhook from enviar_em_blocos with the list b: the text
\* sent, the lines it was built from, and the outcome.
Envio(b, falha) ==
    LET conteudo == prefixo_bloco \o Join(b) \o sufixo_bloco
        r == enviar_webhook(conteudo, webhook_url, falha)
    IN [texto |-> conteudo, linhas |-> b,
        resultado |-> r.resultado, levantou |-> r.levantou]

\* len(prefixo_bloco + texto_atual + sufixo_bloco) > limite
Estoura(texto_atual, lim) ==
    Len(prefixo_bloco \o texto_atual \o sufixo_bloco) > lim

InitBlocos ==
    /\ mensagem \in Textos(MaxMsg)
    /\ webhook_url \in {"", "https://hook"}
    /\ limite \in Limites
    /\ idx = 0
    /\ bloco = <<>>
    /\ enviados = <<>>
    /\ pc = "loop"

\* A loop iteration in which the line fits: bloco.append(linha).
Acumula ==
    /\ pc = "loop"
    /\ idx < Len(linhas)
    /\ LET linha == linhas[idx + 1]
           novo == Append(bloco, linha)
       IN /\ ~Estoura(Join(novo), limite)
          /\ bloco' = novo
    /\ idx' = idx + 1
    /\ UNCHANGED <<mensagem, webhook_url, limite, enviados, pc>>
    /\ UNCHANGED <<varsMsg, varsC>>

\* A loop iteration in which the line overflows: bloco.pop(), the rest is
\* sent, and bloco restarts with the line.
Transborda ==
    /\ pc = "loop"
    /\ idx < Len(linhas)
    /\ LET linha == linhas[idx + 1]
           novo == Append(bloco, linha)
       IN /\ Estoura(Join(novo), limite)
          /\ \E falha \in BOOLEAN :
                LET e == Envio(bloco, falha)
                IN /\ enviados' = Append(enviados, e)
                   /\ IF e.levantou
                      THEN /\ pc' = "excecao"
                           /\ bloco' = bloco
                      ELSE /\ pc' = pc
                           /\ bloco' = <<linha>>
    /\ idx' = idx + 1
    /\ UNCHANGED <<mensagem, webhook_url, limite>>
    /\ UNCHANGED <<varsMsg, varsC>>

\* After the loop: if bloco: enviar_webhook(...).
Final ==
    /\ pc = "loop"
    /\ idx = Len(linhas)
    /\ IF bloco # <<>>
       THEN \E falha \in BOOLEAN :
                LET e == Envio(bloco, falha)
                IN /\ enviados' = Append(enviados, e)
                   /\ pc' = IF e.levantou THEN "excecao" ELSE "fim"
       ELSE /\ enviados' = enviados
            /\ pc' = "fim"
    /\ UNCHANGED <<mensagem, webhook_url, limite, idx, bloco>>
    /\ UNCHANGED <<varsMsg, varsC>>


-----------------------------------------------------------------------------
(* obter_dados_expedicao and montar_mensagem *)

\* Times are minutes counted from midnight of the day the script runs; a
\* value of 1440 or more is on the next day.
Hora(t) == (t \div 60) % 24
Minuto(t) == t % 60

\* pd.to_datetime(..., errors='coerce') gives NaT for a cell it cannot parse.
NaT == -1

\* Column widths of header_fmt and row_fmt.
LarguraLT == 14
LarguraDoca == 6
LarguraCPT == 7
LarguraDestino == 25
JanelaMinutos == 120
MinutosAlerta == 10
LarguraDivisor == 40

\* Stand-ins for the glyphs of the script, one character per code point.
Caminhao == "#"
Feito == "+"
Alerta == "/!"
Atrasado == "!!"
Traco == "-"

identificar_turno(hora) ==
    IF 6 <= hora /\ hora < 14 THEN "Turno 1"
    ELSE IF 14 <= hora /\ hora < 22 THEN "Turno 2"
    ELSE "Turno 3"

\* str.strip() over the blank.
RECURSIVE LStrip(_)
LStrip(s) ==
    IF Len(s) > 0 /\ Char(s, 1) = " " THEN LStrip(SubSeq(s, 2, Len(s))) ELSE s

RECURSIVE RStrip(_)
RStrip(s) ==
    IF Len(s) > 0 /\ Char(s, Len(s)) = " " THEN RStrip(SubSeq(s, 1, Len(s) - 1)) ELSE s

Strip(s) == RStrip(LStrip(s))

\* The slice s[:n].
CortaCurto(s, n) == SubSeq(s, 1, Min(Len(s), n - 1))

Corta(s, n) == SubSeq(s, 1, Min(Len(s), n))

RECURSIVE Rep(_, _)
Rep(c, n) == IF n <= 0 THEN "" ELSE c \o Rep(c, n - 1)

\* The format fields {:<w} and {:^w}: a longer value is left as it is.
Esquerda(s, w) == s \o Rep(" ", w - Len(s))

Centro(s, w) ==
    LET falta == IF w > Len(s) THEN w - Len(s) ELSE 0
        antes == falta \div 2
    IN Rep(" ", antes) \o s \o Rep(" ", falta - antes)

\* {:02d} and strftime('%H:%M')
DoisDigitos(n) == IF n < 10 THEN "0" \o ToString(n) ELSE ToString(n)

cpt_str(t) == DoisDigitos(Hora(t)) \o ":" \o DoisDigitos(Minuto(t))

\* ''.join(filter(str.isdigit, doca))
RECURSIVE Digitos(_)
Digitos(s) ==
    IF Len(s) = 0 THEN ""
    ELSE (IF Char(s, 1) \in {"0", "1", "2", "3", "4", "5", "6", "7", "8", "9"}
          THEN Char(s, 1) ELSE "") \o Digitos(SubSeq(s, 2, Len(s)))

formatar_doca(doca) ==
    LET d == Strip(doca)
        numeros == Digitos(d)
    IN IF d = "" \/ d = "-" THEN "--"
       ELSE IF numeros # "" THEN numeros ELSE "--"

header_fmt(a, b, c, d) ==
    "   " \o Centro(a, LarguraLT) \o " | " \o Centro(b, LarguraDoca) \o " | "
          \o Centro(c, LarguraCPT) \o " | " \o Centro(d, LarguraDestino)

row_fmt(a, b, c, d) ==
    Esquerda(a, LarguraLT) \o " | " \o Centro(b, LarguraDoca) \o " | "
          \o Centro(c, LarguraCPT) \o " | " \o Esquerda(d, LarguraDestino)

\* Order of str in Python, by code point, over the characters of the inputs.
Ordem == " -0123456789ABCDEFGHIJKLMNOPQRSTUVWXYZ_abcdefghijklmnopqrstuvwxyz"

Ord(c) == CHOOSE i \in 1..Len(Ordem) : Char(Ordem, i) = c

RECURSIVE StrMenor(_, _)
StrMenor(a, b) ==
    IF Len(b) = 0 THEN FALSE
    ELSE IF Len(a) = 0 THEN TRUE
    ELSE IF Char(a, 1) # Char(b, 1) THEN Ord(Char(a, 1)) < Ord(Char(b, 1))
    ELSE StrMenor(SubSeq(a, 2, Len(a)), SubSeq(b, 2, Len(b)))

\* df[(df['CPT'] >= agora) & (df['CPT'] < limite_2h)]
NaJanelaFechada(cpt, ag) == cpt >= ag /\ cpt <= ag + JanelaMinutos

NaJanela(cpt, ag) == cpt >= ag /\ cpt < ag + JanelaMinutos

\* The rows of d in the window, by position in d.
df_2h(d, ag) == SelectSeq([i \in 1..Len(d) |-> i], LAMBDA i : NaJanela(d[i].CPT, ag))

\* sort_values(by=['CPT', 'Station Name']): rows equal in both keep their order.
Antes(d, i, j) ==
    \/ d[i].CPT < d[j].CPT
    \/ d[i].CPT = d[j].CPT /\ StrMenor(d[i].Station, d[j].Station)

RECURSIVE Insere(_, _, _)
Insere(d, s, x) ==
    IF s = <<>> THEN <<x>>
    ELSE IF Antes(d, x, Head(s)) THEN <<x>> \o s
    ELSE <<Head(s)>> \o Insere(d, Tail(s), x)

RECURSIVE sort_values(_, _)
sort_values(d, s) ==
    IF s = <<>> THEN <<>>
    ELSE Insere(d, sort_values(d, SubSeq(s, 1, Len(s) - 1)), s[Len(s)])

\* The keys of groupby('Hora'), which sorts them.
RECURSIVE Crescente(_)
Crescente(S) ==
    IF S = {} THEN <<>>
    ELSE LET m == CHOOSE x \in S : \A y \in S : x <= y
         IN <<m>> \o Crescente(S \ {m})

ChavesDoGroupby(d, s) == Crescente({Hora(d[s[k]].CPT) : k \in 1..Len(s)})

\* An entry of mensagens: the text appended, and what it was built from.
Entrada(tipo, texto, hora, qtd, reg, turno) ==
    [tipo |-> tipo, texto |-> texto, hora |-> hora, qtd |-> qtd,
     reg |-> reg, turno |-> turno]

Simples(tipo, texto) == Entrada(tipo, texto, 0, 0, 0, "")

\* The row of record d[i].
LinhaDaTabela(d, ag, i) ==
    LET cpt == d[i].CPT
        minutos == cpt - ag
        prefixo == IF minutos < 0 THEN Atrasado
                   ELSE IF minutos <= MinutosAlerta THEN Alerta
                   ELSE "  "
        lt == Corta(Strip(d[i].LT), LarguraLT)
        destino == Corta(Strip(d[i].Station), LarguraDestino)
        doca == Corta(formatar_doca(d[i].Doca), LarguraDoca)
        dados_formatados == row_fmt(lt, doca, cpt_str(cpt), destino)
    IN Entrada("linha", prefixo \o " " \o dados_formatados, Hora(cpt), 0, i, "")

RECURSIVE LinhasDoGrupo(_, _, _)
LinhasDoGrupo(d, ag, grupo) ==
    IF grupo = <<>> THEN <<>>
    ELSE <<LinhaDaTabela(d, ag, Head(grupo))>> \o LinhasDoGrupo(d, ag, Tail(grupo))

\* The loop over groupby('Hora').
RECURSIVE Grupos(_, _, _, _)
Grupos(d, ag, ordenado, chaves) ==
    IF chaves = <<>> THEN <<>>
    ELSE LET hora == Head(chaves)
             grupo == SelectSeq(ordenado, LAMBDA i : Hora(d[i].CPT) = hora)
             qtd == Len(grupo)
             suffix == IF qtd > 1 THEN "s" ELSE ""
         IN << Simples("vazia", ""),
               Entrada("grupo",
                       ToString(qtd) \o " LH" \o suffix \o " pendente" \o suffix
                           \o " as " \o DoisDigitos(hora) \o "h",
                       hora, qtd, 0, "") >>
            \o LinhasDoGrupo(d, ag, grupo)
            \o Grupos(d, ag, ordenado, Tail(chaves))

Tabela(d, ag) ==
    LET janela == df_2h(d, ag)
        header == header_fmt("LT", "Doca", "CPT", "Destino")
        separator == "   " \o Rep(Traco, Len(header) - 3)
        ordenado == sort_values(d, janela)
    IN IF janela = <<>>
       THEN << Simples("sem_pendencias", Feito \o " Sem pendencias para as proximas 2h.") >>
       ELSE << Simples("cabecalho", header), Simples("separador", separator) >>
            \o Grupos(d, ag, ordenado, ChavesDoGroupby(d, ordenado))

\* df['Turno'].value_counts(), read with totais.get(turno, 0)
totaisDaJanela(d, turno) ==
    Cardinality({i \in 1..Len(d) : d[i].Turno = turno /\ NaJanela(d[i].CPT, agora)})

totais(d, turno) == Cardinality({i \in 1..Len(d) : d[i].Turno = turno})

prioridades_turno(turno) ==
    IF turno = "Turno 1" THEN <<"Turno 2", "Turno 3">>
    ELSE IF turno = "Turno 2" THEN <<"Turno 3", "Turno 1">>
    ELSE IF turno = "Turno 3" THEN <<"Turno 1", "Turno 2">>
    ELSE <<>>

LinhaDoResumo(d, turno) ==
    LET qtd == totais(d, turno)
        suffix == IF qtd # 1 THEN "s" ELSE ""
    IN IF qtd > 0
       THEN Entrada("resumo",
                    Alerta \o " " \o ToString(qtd) \o " LH" \o suffix \o " pendente"
                        \o suffix \o " no " \o turno,
                    0, qtd, 0, turno)
       ELSE Entrada("resumo", Feito \o " 0 LHs pendentes no " \o turno, 0, qtd, 0, turno)

montar_mensagem(d, ag) ==
    LET turno_atual == identificar_turno(Hora(ag))
        proximos == prioridades_turno(turno_atual)
    IN << Simples("titulo", Caminhao \o " LTs pendentes:"), Simples("vazia", "") >>
       \o Tabela(d, ag)
       \o << Simples("vazia", ""),
             Simples("divisor", Rep(Traco, LarguraDivisor)),
             Simples("rodape", "LH's pendentes para os proximos turnos:"),
             Simples("vazia", "") >>
       \o [k \in 1..Len(proximos) |-> LinhaDoResumo(d, proximos[k])]

\* The sheet: rows with a trip id, a dock, a station and a CPT cell.
Cargas ==
    { [LT |-> "LT0123456789ABC", Doca |-> "Ext 64", Station |-> "Centro de Distribuicao XYZ"],
      [LT |-> " LT2 ", Doca |-> "-", Station |-> "Alfa"],
      [LT |-> "LT3", Doca |-> "1234567", Station |-> "Beta "] }

Agoras == {830, 840, 1410}

CPTs == {360, 830, 840, 950, 960, 1425, 1455, 1530}

LinhasDaPlanilha ==
    { [LT |-> c.LT, Doca |-> c.Doca, Station |-> c.Station, CPT |-> t] : c \in Cargas, t \in CPTs }
    \cup { [LT |-> "  ", Doca |-> "7", Station |-> "Alfa", CPT |-> 840],
           [LT |-> "LT9", Doca |-> "", Station |-> "Beta", CPT |-> NaT] }

Planilhas == UNION { [1..n -> LinhasDaPlanilha] : n \in 0..MaxRegistros }

InitMsg ==
    /\ planilha \in Planilhas
    /\ agora \in Agoras
    /\ df = <<>>
    /\ mensagens = <<>>
    /\ pcM = "inicio"

\* The rows obter_dados_expedicao keeps, with the column Turno.
Tratado(dados) ==
    LET validas == SelectSeq(dados, LAMBDA r : Strip(r.LT) # "" /\ r.CPT # NaT)
    IN [k \in 1..Len(validas) |->
            [LT |-> validas[k].LT, Doca |-> validas[k].Doca,
             Station |-> validas[k].Station, CPT |-> validas[k].CPT,
             Turno |-> identificar_turno(Hora(validas[k].CPT))]]

\* obter_dados_expedicao: the sheet cannot be read, or has no data row, or
\* gives the data frame.  The four columns are taken to be present.
ObterDados ==
    /\ pcM = "inicio"
    /\ \E acesso \in BOOLEAN :
          IF ~acesso \/ Len(planilha) < 1
          THEN /\ pcM' = "erro"
               /\ df' = df
          ELSE /\ pcM' = "dados"
               /\ df' = Tratado(planilha)
    /\ UNCHANGED <<planilha, agora, mensagens>>
    /\ UNCHANGED <<varsBlocos, varsC>>

MontarMensagem ==
    /\ pcM = "dados"
    /\ mensagens' = montar_mensagem(df, agora)
    /\ pcM' = "montada"
    /\ UNCHANGED <<planilha, agora, df>>
    /\ UNCHANGED <<varsBlocos, varsC>>

-----------------------------------------------------------------------------
(* Specifications *)

\* The variables of the other two parts, at rest.
MsgParado ==
    /\ planilha = <<>>
    /\ agora = 0
    /\ df = <<>>
    /\ mensagens = <<>>
    /\ pcM = "parado"

CParado ==
    /\ cTotal = 0
    /\ cAberta = FALSE
    /\ cBloco = [n |-> 0, len |-> 0]
    /\ cEnviados = <<>>
    /\ pcC = "parado"

BlocosParado ==
    /\ mensagem = ""
    /\ webhook_url = ""
    /\ limite = 0
    /\ idx = 0
    /\ bloco = <<>>
    /\ enviados = <<>>
    /\ pc = "parado"

Init == InitBlocos /\ MsgParado /\ CParado

\* enviar_em_blocos, one loop iteration or the final send at a time.
Next == Acumula \/ Transborda \/ Final

Spec == Init /\ [][Next]_vars

\* The script is one sequential thread: a step that can be taken is taken.
FairSpec == Init /\ [][Next]_vars /\ WF_vars(Next)

-----------------------------------------------------------------------------
(* Claims about enviar_em_blocos *)

\* What a receiver reads from a chunk: the text between the wrapper's opening
\* and closing delimiter lines, split at line breaks.
SemMoldura(texto) ==
    SubSeq(texto, Len(prefixo_bloco) + 1, Len(texto) - Len(sufixo_bloco))

RECURSIVE LinhasLidas(_)
LinhasLidas(envios) ==
    IF envios = <<>> THEN <<>>
    ELSE Split(SemMoldura(Head(envios).texto)) \o LinhasLidas(Tail(envios))

\* The lines the chunks were built from, chunk after chunk.
RECURSIVE LinhasEntregues(_)
LinhasEntregues(envios) ==
    IF envios = <<>> THEN <<>>
    ELSE Head(envios).linhas \o LinhasEntregues(Tail(envios))

\* Number of delimiters in a text, read left to right without overlap.
RECURSIVE ContaCrases(_, _)
ContaCrases(s, i) ==
    IF i + 2 > Len(s) THEN 0
    ELSE IF SubSeq(s, i, i + 2) = Crases THEN 1 + ContaCrases(s, i + 3)
    ELSE ContaCrases(s, i + 1)

\* Every opening delimiter is followed by a closing one.
Balanceado(s) == ContaCrases(s, 1) % 2 = 0

\* C1: every chunk handed to delivery is within the budget, wrapper included,
\* unless it holds exactly one line of the message and that line with its
\* wrapper already exceeds the budget.
C1_DentroDoLimite ==
    \A k \in 1..Len(enviados) :
        \/ Len(enviados[k].texto) <= limite
        \/ /\ Len(enviados[k].linhas) = 1
           /\ Len(prefixo_bloco \o enviados[k].linhas[1] \o sufixo_bloco) > limite

\* C2: once enviar_em_blocos has finished, the chunks in delivery order,
\* stripped of the wrapper and split into lines, give back the lines of the
\* message.
C2_IdaEVolta ==
    pc = "fim" => LinhasLidas(enviados) = linhas

\* C3: every chunk handed to delivery has balanced delimiters.
C3_CrasesBalanceadas ==
    \A k \in 1..Len(enviados) : Balanceado(enviados[k].texto)

\* C4: whatever calls of enviar_webhook fail, enviar_em_blocos runs to its
\* end, and by then every line of the message has been handed to delivery
\* once, in order.
C4_FalhaNaoInterrompe ==
    (pc = "loop") ~> (pc = "fim" /\ LinhasEntregues(enviados) = linhas)

\* C4 witness: the run has finished, and a chunk that failed was followed by
\* the attempt of a later chunk.
C4_Witness ==
    /\ pc = "fim"
    /\ \E k \in 1..Len(enviados) :
          /\ k < Len(enviados)
          /\ enviados[k].resultado = "erro"

\* C10: every chunk handed to delivery holds at least one line of the
\* message.
C10_BlocoNaoVazio ==
    \A k \in 1..Len(enviados) : Len(enviados[k].linhas) >= 1

-----------------------------------------------------------------------------
(* Specification and claims of montar_mensagem *)

NextMsg == ObterDados \/ MontarMensagem

InitM == InitMsg /\ BlocosParado /\ CParado

SpecMsg == InitM /\ [][NextMsg]_vars

\* Record i of df has a row in the table.
Renderizado(i) ==
    \E k \in 1..Len(mensagens) : mensagens[k].tipo = "linha" /\ mensagens[k].reg = i

DoTipo(tipo) == SelectSeq(mensagens, LAMBDA e : e.tipo = tipo)

\* C5: a record is rendered as a table row if and only if
\* agora <= CPT < agora + 2h.
C5_JanelaSemiAberta ==
    pcM = "montada" =>
        \A i \in 1..Len(df) :
            Renderizado(i) <=> (agora <= df[i].CPT /\ df[i].CPT < agora + 2 * 60)

\* C5 witness: a record at exactly agora has a row and a record at exactly
\* agora + 2h has none.
C5_Witness ==
    /\ pcM = "montada"
    /\ \E i, j \in 1..Len(df) :
          /\ df[i].CPT = agora /\ Renderizado(i)
          /\ df[j].CPT = agora + 2 * 60 /\ ~Renderizado(j)

\* The hours of a sequence of times, each hour kept where it first occurs.
RECURSIVE PrimeirasHoras(_, _)
PrimeirasHoras(tempos, vistas) ==
    IF tempos = <<>> THEN <<>>
    ELSE LET h == Hora(Head(tempos))
         IN IF h \in vistas THEN PrimeirasHoras(Tail(tempos), vistas)
            ELSE <<h>> \o PrimeirasHoras(Tail(tempos), vistas \cup {h})

HorasDosGrupos == [k \in 1..Len(DoTipo("grupo")) |-> DoTipo("grupo")[k].hora]

\* C6: the hour-groups of the table appear in the order in which their hour
\* is first met among the records of the window sorted by scheduled time.
C6_OrdemDePrimeiraOcorrencia ==
    pcM = "montada" =>
        HorasDosGrupos =
            PrimeirasHoras(Crescente({df[i].CPT : i \in {j \in 1..Len(df) : Renderizado(j)}}), {})

\* The hour ranges of the shifts, and the two shifts that follow each.
NoTurno(h, turno) ==
    CASE turno = "Turno 1" -> 6 <= h /\ h < 14
      [] turno = "Turno 2" -> 14 <= h /\ h < 22
      [] turno = "Turno 3" -> h >= 22 \/ h < 6

Seguintes(turno) ==
    CASE turno = "Turno 1" -> <<"Turno 2", "Turno 3">>
      [] turno = "Turno 2" -> <<"Turno 3", "Turno 1">>
      [] turno = "Turno 3" -> <<"Turno 1", "Turno 2">>

Contem(texto, parte) ==
    \E i \in 1..Len(texto) : SubSeq(texto, i, i + Len(parte) - 1) = parte

\* C7: the summary has exactly one line for each of the two shifts other than
\* the current one, in the cyclic order after it; each shows the number of
\* records of the whole df whose hour is in that shift's range, zero included.
C7_ResumoDosTurnos ==
    pcM = "montada" =>
        LET resumo == DoTipo("resumo")
            atual == CHOOSE t \in {"Turno 1", "Turno 2", "Turno 3"} : NoTurno(Hora(agora), t)
        IN /\ Len(resumo) = 2
           /\ \A k \in 1..2 :
                 LET n == Cardinality({i \in 1..Len(df) :
                                          NoTurno(Hora(df[i].CPT), Seguintes(atual)[k])})
                 IN /\ resumo[k].turno = Seguintes(atual)[k]
                    /\ resumo[k].qtd = n
                    /\ Contem(resumo[k].texto,
                              " " \o ToString(n) \o " LH")
                    /\ Contem(resumo[k].texto, resumo[k].turno)

\* C7 witness: one listed shift has no record, and the other counts a record
\* that is outside the 2-hour window.
C7_Witness ==
    /\ pcM = "montada"
    /\ \E k \in 1..Len(DoTipo("resumo")) : DoTipo("resumo")[k].qtd = 0
    /\ \E k \in 1..Len(DoTipo("resumo")) :
          \E i \in 1..Len(df) :
              /\ ~Renderizado(i)
              /\ df[i].Turno = DoTipo("resumo")[k].turno

\* Where the trip id and the destination stand in a row.
ColunaLT(texto) == SubSeq(texto, 4, 3 + LarguraLT)

ColunaDestino(texto) ==
    SubSeq(texto, Len(texto) - LarguraDestino + 1, Len(texto))

Reticencias == "..."

\* C9 as stated: a trip id or a destination longer than its column is shown
\* cut and ending in an ellipsis.
C9_CorteComReticencias ==
    pcM = "montada" =>
        \A k \in 1..Len(mensagens) :
            mensagens[k].tipo = "linha" =>
                LET r == df[mensagens[k].reg]
                    lt == ColunaLT(mensagens[k].texto)
                    destino == ColunaDestino(mensagens[k].texto)
                IN /\ Len(Strip(r.LT)) > LarguraLT =>
                        SubSeq(lt, Len(lt) - 2, Len(lt)) = Reticencias
                   /\ Len(Strip(r.Station)) > LarguraDestino =>
                        SubSeq(destino, Len(destino) - 2, Len(destino)) = Reticencias

\* C9 amended: a row always has the fixed width; its trip id column holds the
\* first 14 characters of the trimmed trip id and its destination column the
\* first 25 characters of the trimmed destination, padded with blanks, so a
\* longer value is cut with no marker.
C9_CorteSemMarca ==
    pcM = "montada" =>
        \A k \in 1..Len(mensagens) :
            mensagens[k].tipo = "linha" =>
                LET r == df[mensagens[k].reg]
                    lt == Strip(r.LT)
                    destino == Strip(r.Station)
                    t == mensagens[k].texto
                IN /\ Len(t) = 3 + 14 + 3 + 6 + 3 + 7 + 3 + 25
                   /\ \A c \in 1..14 :
                         Char(t, 3 + c) = IF c <= Len(lt) THEN Char(lt, c) ELSE " "
                   /\ \A c \in 1..25 :
                         Char(t, 39 + c) = IF c <= Len(destino) THEN Char(destino, c) ELSE " "

\* C9 witness: a row whose trip id and destination are both longer than
\* their columns.
C9_Witness ==
    /\ pcM = "montada"
    /\ \E k \in 1..Len(mensagens) :
          /\ mensagens[k].tipo = "linha"
          /\ Len(Strip(df[mensagens[k].reg].LT)) > 14
          /\ Len(Strip(df[mensagens[k].reg].Station)) > 25

-----------------------------------------------------------------------------
(* enviar_em_blocos on an assembled message of TamanhoCenario characters *)

\* The default of the parameter limite.
LimitePadrao == 3000

\* No line of an assembled message is longer than the header and the rows.
MaxLinha == 3 + LarguraLT + 3 + LarguraDoca + 3 + LarguraCPT + 3 + LarguraDestino

\* All montar_mensagem appends is within MaxLinha.
LinhasDentroDeMaxLinha ==
    \A k \in 1..Len(mensagens) : Len(mensagens[k].texto) <= MaxLinha

\* The lengths of the lines montar_mensagem appends (blank line, title, group
\* and summary lines, empty-state line, footer, divider, header and rows),
\* with the lengths next to the ends of the range.
Comprimentos == {0, 1, 16, 20, 22, 27, 28, 29, 37, 39, 40, MaxLinha - 1, MaxLinha}

\* Here a line is its length, and bloco is the number of its lines (2 for two
\* or more) with the length of "\n".join(bloco): the loop reads nothing else.
\* cTotal is the number of characters of the message read so far, line
\* breaks included; the message ends when it reaches TamanhoCenario.  The
\* outcome of enviar_webhook does not change the loop (see Envio), so a chunk
\* is recorded by its size alone.
InitCenario ==
    /\ cTotal = 0
    /\ cAberta = TRUE
    /\ cBloco = [n |-> 0, len |-> 0]
    /\ cEnviados = <<>>
    /\ pcC = "loop"

JuntaC(b, comprimento) ==
    IF b.n = 0 THEN [n |-> 1, len |-> comprimento]
    ELSE [n |-> 2, len |-> b.len + 1 + comprimento]

EnvioC(b) ==
    [n |-> b.n, total |-> Len(prefixo_bloco) + b.len + Len(sufixo_bloco)]

\* len(prefixo_bloco + texto_atual + sufixo_bloco) > limite
EstouraCSemMoldura(comprimento, lim) == comprimento > lim

EstouraC(comprimento, lim) ==
    Len(prefixo_bloco) + comprimento + Len(sufixo_bloco) > lim

\* The text read so far once a line of the given length follows.
LidoCom(comprimento) == IF cTotal = 0 /\ cBloco.n = 0 /\ cEnviados = <<>>
                        THEN comprimento
                        ELSE cTotal + 1 + comprimento

\* A loop iteration on a line that fits.
AcumulaC ==
    /\ pcC = "loop"
    /\ cAberta
    /\ \E comprimento \in Comprimentos :
          /\ LidoCom(comprimento) <= TamanhoCenario
          /\ ~EstouraC(JuntaC(cBloco, comprimento).len, LimitePadrao)
          /\ cBloco' = JuntaC(cBloco, comprimento)
          /\ cTotal' = LidoCom(comprimento)
          /\ cAberta' = (LidoCom(comprimento) < TamanhoCenario)
    /\ UNCHANGED <<cEnviados, pcC>>
    /\ UNCHANGED <<varsBlocos, varsMsg>>

\* A loop iteration on a line that overflows.
TransbordaC ==
    /\ pcC = "loop"
    /\ cAberta
    /\ \E comprimento \in Comprimentos :
          /\ LidoCom(comprimento) <= TamanhoCenario
          /\ EstouraC(JuntaC(cBloco, comprimento).len, LimitePadrao)
          /\ cEnviados' = Append(cEnviados, EnvioC(cBloco))
          /\ cBloco' = [n |-> 1, len |-> comprimento]
          /\ cTotal' = LidoCom(comprimento)
          /\ cAberta' = (LidoCom(comprimento) < TamanhoCenario)
    /\ UNCHANGED pcC
    /\ UNCHANGED <<varsBlocos, varsMsg>>

\* After the loop: if bloco: enviar_webhook(...).
FinalC ==
    /\ pcC = "loop"
    /\ ~cAberta
    /\ cEnviados' = IF cBloco.n > 0 THEN Append(cEnviados, EnvioC(cBloco)) ELSE cEnviados
    /\ pcC' = "fim"
    /\ UNCHANGED <<cTotal, cAberta, cBloco>>
    /\ UNCHANGED <<varsBlocos, varsMsg>>

NextC == AcumulaC \/ TransbordaC \/ FinalC

InitC == InitCenario /\ BlocosParado /\ MsgParado

SpecC == InitC /\ [][NextC]_vars

\* C8: an assembled message of 5000 characters sent with the budget of 3000
\* gives exactly two chunks, each within the budget.
C8_DoisBlocos ==
    pcC = "fim" =>
        /\ Len(cEnviados) = 2
        /\ \A k \in 1..Len(cEnviados) : cEnviados[k].total <= LimitePadrao

\* C8 witness: the whole message has been read and sent, in two chunks.
C8_Witness ==
    /\ pcC = "fim"
    /\ cTotal = TamanhoCenario
    /\ Len(cEnviados) = 2

====
